---- MODULE Spec2Model ----
(***************************************************************************)
(* Model of app.py, the Streamlit invoice classifier: the password gate,   *)
(* the CIF matcher buscar_cif_en_pdf, and procesar_y_clasificar (create    *)
(* the folders, strip the file names, classify and move every PDF with the *)
(* files sharing its base name, delete the empty folders), followed by the *)
(* ZIP archive.                                                            *)
(*                                                                         *)
(* Strings are sequences of one-character strings, so that strip, lower,   *)
(* endswith, splitext, re.sub and the regular expression are computed      *)
(* character by character as Python computes them.  A path below the       *)
(* temporary directory is the sequence of its components; <<>> is the      *)
(* temporary directory itself.  The file system behaves as POSIX does:     *)
(* os.rename onto an existing regular file replaces it silently.           *)
(***************************************************************************)
EXTENDS Naturals, Sequences, FiniteSets

VARIABLES
    PASSWORD,            \* os.getenv("APP_PASSWORD"): <<>> is None, <<s>> is the string s
    password,            \* value of the st.text_input widget
    button,              \* st.button's value in the current script run
    uploaded_files,      \* value of the st.file_uploader widget: records [name, data]
    pc,                  \* position of the current script run
    dirs,                \* directories below temp_dir (paths)
    files,               \* regular files of temp_dir: records [dir, name, data]
    listing,             \* the os.listdir(base_dir) list the current for loop iterates
    todo,                \* entries of listing not iterated yet
    filename,            \* loop variable of the current for loop
    texto_completo,      \* buscar_cif_en_pdf's texto_completo of the last call
    cifs_encontrados,    \* result of the last buscar_cif_en_pdf call
    destination_folder,  \* <<>> is None, <<path>> is the chosen folder
    log_messages,        \* the list log_messages
    archive              \* entries written to facturas_clasificadas.zip: [arcname, data]

vars == <<PASSWORD, password, button, uploaded_files, pc, dirs, files, listing, todo,
          filename, texto_completo, cifs_encontrados, destination_folder,
          log_messages, archive>>

----------------------------------------------------------------------------
(* Bounds of the model.                                                    *)

\* Largest number of files the user uploads in one batch.
MaxFiles == 3

\* Largest number of gaps of an embedded code that hold separator characters
\* in the texts the matcher is run on.
MaxSeps == 2

----------------------------------------------------------------------------
(* Characters and the str methods the program uses.                        *)

LowerCase == <<"a","b","c","d","e","f","g","h","i","j","k","l","m","n","o","p","q","r","s","t","u","v","w","x","y","z">>
UpperCase == <<"A","B","C","D","E","F","G","H","I","J","K","L","M","N","O","P","Q","R","S","T","U","V","W","X","Y","Z">>
Digits == {"0","1","2","3","4","5","6","7","8","9"}

\* str.isspace characters (those the model's inputs use); also the regex class \s.
Whitespace == {" ", "\t", "\n"}

UpperChar(c) ==
    IF \E i \in 1..Len(LowerCase) : LowerCase[i] = c
    THEN UpperCase[CHOOSE i \in 1..Len(LowerCase) : LowerCase[i] = c]
    ELSE c

LowerChar(c) ==
    IF \E i \in 1..Len(UpperCase) : UpperCase[i] = c
    THEN LowerCase[CHOOSE i \in 1..Len(UpperCase) : UpperCase[i] = c]
    ELSE c

\* str.upper()
upper(s) == [i \in 1..Len(s) |-> UpperChar(s[i])]

\* str.lower()
lower(s) == [i \in 1..Len(s) |-> LowerChar(s[i])]

\* str.endswith(suffix)
endswith(s, suffix) ==
    /\ Len(suffix) <= Len(s)
    /\ SubSeq(s, Len(s) - Len(suffix) + 1, Len(s)) = suffix

\* str.strip(): drop the leading and the trailing whitespace
strip(s) ==
    LET keep == {i \in 1..Len(s) : s[i] \notin Whitespace}
    IN  IF keep = {} THEN <<>>
        ELSE LET first == CHOOSE i \in keep : \A j \in keep : i <= j
                 last  == CHOOSE i \in keep : \A j \in keep : j <= i
             IN  SubSeq(s, first, last)

\* os.path.splitext(p) for a name without separators: the extension starts at
\* the last dot, unless only dots precede that dot (a leading-dot name has no
\* extension).  Returns <<root, ext>>.
splitext(p) ==
    LET dots == {i \in 1..Len(p) : p[i] = "."}
    IN  IF dots = {} THEN <<p, <<>>>>
        ELSE LET dotIndex == CHOOSE i \in dots : \A j \in dots : j <= i
             IN  IF \E k \in 1..(dotIndex - 1) : p[k] # "."
                 THEN <<SubSeq(p, 1, dotIndex - 1), SubSeq(p, dotIndex, Len(p))>>
                 ELSE <<p, <<>>>>

\* The sequences that list every element of the finite set S exactly once: the
\* orders in which list(set(...)) or os.listdir may enumerate S.
Orders(S) ==
    {q \in [1..Cardinality(S) -> S] : \A i, j \in 1..Cardinality(S) : q[i] = q[j] => i = j}

Range(q) == {q[i] : i \in 1..Len(q)}

----------------------------------------------------------------------------
(* Program constants.                                                      *)

CIFS_LIST == <<
    <<"B","8","5","5","3","6","1","3","4">>, <<"A","8","0","6","5","2","9","2","8">>,
    <<"B","8","4","4","2","5","1","3","1">>, <<"A","8","1","9","8","9","3","6","0">>,
    <<"B","8","1","5","0","0","0","4","3">>, <<"A","7","9","4","9","2","2","8","6">>,
    <<"G","8","3","8","4","4","3","1","6">>, <<"A","8","1","9","4","4","7","2","0">>,
    <<"B","6","0","9","2","4","1","3","1">>, <<"B","4","7","3","8","4","6","4","9">>,
    <<"A","3","1","6","0","4","9","0","3">> >>

UNIDENTIFIED_FOLDER_NAME == <<"S","i","n"," ","i","d","e","n","t","i","f","i","c","a","r">>

ZIP_NAME == <<"f","a","c","t","u","r","a","s","_","c","l","a","s","i","f","i","c","a","d","a","s",".","z","i","p">>

PDF_SUFFIX == <<".","p","d","f">>

\* Variant of PatronLetters: a pattern that accepts any leading letter used in
\* the inputs, [A-Z] instead of [ABG].
PatronLettersAnyLetter == {"A", "B", "G", "Z", "a", "b", "g", "z"}

\* patron_cif = [ABG]\d{8} with re.IGNORECASE
PatronLetters == {"A", "B", "G", "a", "b", "g"}
PatronDigits == 8

\* the class [\s._-] that re.sub removes
CleanedChars == Whitespace \cup {".", "_", "-"}

----------------------------------------------------------------------------
(* buscar_cif_en_pdf.                                                      *)

\* The uploaded byte contents the model draws PDFs from, as pdfplumber sees
\* them: unreadable bytes (open raises), or the text of each page, where <<>>
\* is a page without extractable text.
PdfDocs ==
    [ bad   |-> [readable |-> FALSE, pages |-> <<>>],
      multi |-> [readable |-> TRUE,
                 pages |-> << <<"A","8","0","6","5","2","9","2","8"," ","Z","9","9","9","9","9","9","9","9">> >>],
      two   |-> [readable |-> TRUE,
                 pages |-> << <<"b","-","8","5","5","3"," ","6","1","3","4","_","A","8","0","6","5","2","9","2","8">> >>],
      noise |-> [readable |-> TRUE,
                 pages |-> << <<"G","1","2","3","4","5","6","7","8"," ","B","9","9","9","9","9","9","9","9">> >>],
      other |-> [readable |-> TRUE,
                 pages |-> << <<"A","8","1","9","8","9","3","6">>, <<>>,
                             <<"0"," ","b",".","1","2","3","4","5","6","7","8">> >>] ]

DocIds == DOMAIN PdfDocs

\* Lines 58-62: the text of the pages, concatenated in page order.
RECURSIVE ExtractText(_)
ExtractText(pages) ==
    IF pages = <<>> THEN <<>> ELSE Head(pages) \o ExtractText(Tail(pages))

\* Variant of texto_limpio: only the whitespace is removed, as re.sub(r'\s', ...).
texto_limpio_solo_espacios(texto) == SelectSeq(texto, LAMBDA c : c \notin Whitespace)

\* Line 67: re.sub(r'[\s._-]', '', texto_completo)
texto_limpio(texto) == SelectSeq(texto, LAMBDA c : c \notin CleanedChars)

\* patron_cif matches at position i of s
MatchAt(s, i) ==
    /\ i + PatronDigits <= Len(s)
    /\ s[i] \in PatronLetters
    /\ \A k \in 1..PatronDigits : s[i + k] \in Digits

\* Line 68: patron_cif.findall, the non-overlapping matches from left to right
RECURSIVE FindAll(_, _)
FindAll(s, i) ==
    IF i > Len(s) THEN <<>>
    ELSE IF MatchAt(s, i)
         THEN <<SubSeq(s, i, i + PatronDigits)>> \o FindAll(s, i + PatronDigits + 1)
         ELSE FindAll(s, i + 1)

\* Lines 67-69: set(match.upper() for match in matches)
MatchSet(texto) == {upper(m) : m \in Range(FindAll(texto_limpio(texto), 1))}

\* Lines 55-69: the lists buscar_cif_en_pdf may return for the text: list(set)
\* enumerates the set in an order that depends on the strings' hashes.
buscar_cif_en_pdf(texto) == Orders(MatchSet(texto))

----------------------------------------------------------------------------
(* The file system below temp_dir.                                         *)

\* os.path.join(base_dir, ...) is a path; base_dir itself is <<>>
base_dir == <<>>

IsChild(p, d) == Len(p) = Len(d) + 1 /\ SubSeq(p, 1, Len(d)) = d

\* os.listdir(d) in the tree (ds, fs): the names of its files and directories
os_listdir(d, ds, fs) ==
    {f.name : f \in {g \in fs : g.dir = d}} \cup {p[Len(p)] : p \in {r \in ds : IsChild(r, d)}}

\* os.path.isfile(os.path.join(d, name))
isfile(d, name, fs) == \E f \in fs : f.dir = d /\ f.name = name

\* os.makedirs(path, exist_ok=True): the path and every missing ancestor
makedirs(path, ds) == ds \cup {SubSeq(path, 1, k) : k \in 1..Len(path)}

\* os.rename(src, dst) inside base_dir, on POSIX: a regular file at dst is replaced
os_rename(src, dst, fs) ==
    {f \in fs : ~(f.dir = base_dir /\ f.name \in {src, dst})}
        \cup {[dir |-> base_dir, name |-> dst, data |-> f.data] :
                 f \in {g \in fs : g.dir = base_dir /\ g.name = src}}

\* shutil.move(os.path.join(base_dir, name), os.path.join(dest, name))
shutil_move(name, dest, fs) ==
    {f \in fs : ~(f.dir = base_dir /\ f.name = name) /\ ~(f.dir = dest /\ f.name = name)}
        \cup {[dir |-> dest, name |-> name, data |-> f.data] :
                 f \in {g \in fs : g.dir = base_dir /\ g.name = name}}

----------------------------------------------------------------------------
(* The log: one record per line appended to log_messages.                  *)

NoStr == <<>>

\* line 85
LogRenombrado(old, new) == [kind |-> "renombrado", filename |-> old, a |-> new, b |-> NoStr]
\* line 97
LogSinCif(name) == [kind |-> "sin_cif", filename |-> name, a |-> NoStr, b |-> NoStr]
\* line 104
LogMultiples(name, principal, secundario) ==
    [kind |-> "multiples", filename |-> name, a |-> principal, b |-> secundario]
\* line 107
LogUnico(name, principal) == [kind |-> "unico", filename |-> name, a |-> principal, b |-> NoStr]
\* line 124
LogEliminada(basename) == [kind |-> "eliminada", filename |-> basename, a |-> NoStr, b |-> NoStr]

----------------------------------------------------------------------------
(* The access gate and the widgets (lines 13-26, 129-134).                 *)

Secrets == {<<>>, <<"">>, <<"pw">>}
Typed == {"", "pw", "bad"}

\* Variant of check_password: a missing secret lets everyone in.
check_password_sin_secreto == PASSWORD = <<>> \/ PASSWORD = <<password>>

\* Lines 16-22: password == PASSWORD; None equals no string
check_password == PASSWORD = <<password>>

\* The names a user may give the uploaded files.
FileNames == {
    <<"a",".","p","d","f">>,
    <<"a",".","P","D","F">>,
    <<" ","a",".","p","d","f">>,
    <<"m","u","l","t","i",".","p","d","f">>,
    <<"a",".","x","l","s","x">>,
    <<"b",".","t","x","t"," ">> }

\* Line 89, on the name the file has after line 82
IsPdfName(name) == endswith(lower(name), PDF_SUFFIX)

\* The batches of the uploader: at most MaxFiles files with distinct names; a
\* file that is not named as a PDF holds bytes pdfplumber cannot read.
Batches ==
    UNION { { {[name |-> n, data |-> [id |-> n, doc |-> d[n]]] : n \in N} :
                d \in {e \in [N -> DocIds] :
                         \A n \in N : ~IsPdfName(strip(n)) => e[n] = "bad"} } :
            N \in {M \in SUBSET FileNames : Cardinality(M) <= MaxFiles} }

\* A script run starts with no temporary directory and no local variables.
FreshRun ==
    /\ dirs' = {}
    /\ files' = {}
    /\ listing' = {}
    /\ todo' = {}
    /\ filename' = NoStr
    /\ texto_completo' = NoStr
    /\ cifs_encontrados' = <<>>
    /\ destination_folder' = <<>>
    /\ log_messages' = <<>>
    /\ archive' = {}

Init ==
    /\ PASSWORD \in Secrets
    /\ password = ""
    /\ button = FALSE
    /\ uploaded_files = {}
    /\ pc = "start"
    /\ dirs = {}
    /\ files = {}
    /\ listing = {}
    /\ todo = {}
    /\ filename = NoStr
    /\ texto_completo = NoStr
    /\ cifs_encontrados = <<>>
    /\ destination_folder = <<>>
    /\ log_messages = <<>>
    /\ archive = {}

\* Lines 25-26 and 134: st.stop() unless check_password(); then the script
\* reaches the button, and runs its body only when the button was pressed.
Gate ==
    /\ pc = "start"
    /\ pc' = IF ~check_password THEN "stopped" ELSE IF button THEN "run" ELSE "idle"
    /\ UNCHANGED <<PASSWORD, password, button, uploaded_files, dirs, files, listing, todo,
                   filename, texto_completo, cifs_encontrados, destination_folder,
                   log_messages, archive>>

\* Line 17: the user types into the password field; Streamlit reruns the script.
TypePassword(p) ==
    /\ pc \in {"stopped", "idle", "done"}
    /\ password' = p
    /\ button' = FALSE
    /\ pc' = "start"
    /\ FreshRun
    /\ UNCHANGED <<PASSWORD, uploaded_files>>

\* Lines 129-132: the user adds files to the empty uploader (the widget is
\* rendered only in a run that passed the gate); Streamlit reruns the script.
UploadFiles ==
    /\ pc \in {"idle", "done"}
    /\ uploaded_files = {}
    /\ uploaded_files' \in Batches
    /\ button' = FALSE
    /\ pc' = "start"
    /\ FreshRun
    /\ UNCHANGED <<PASSWORD, password>>

\* Lines 129-132: the user removes the uploaded files; Streamlit reruns the script.
ClearFiles ==
    /\ pc \in {"idle", "done"}
    /\ uploaded_files # {}
    /\ uploaded_files' = {}
    /\ button' = FALSE
    /\ pc' = "start"
    /\ FreshRun
    /\ UNCHANGED <<PASSWORD, password>>

\* Line 134: the button is disabled without uploaded files; pressing it reruns
\* the script with the button's value True.
PressButton ==
    /\ pc \in {"idle", "done"}
    /\ uploaded_files # {}
    /\ button' = TRUE
    /\ pc' = "start"
    /\ FreshRun
    /\ UNCHANGED <<PASSWORD, password, uploaded_files>>

\* Lines 136-143: write every uploaded file into the fresh temporary directory.
SaveUploads ==
    /\ pc = "run"
    /\ files' = {[dir |-> base_dir, name |-> u.name, data |-> u.data] : u \in uploaded_files}
    /\ log_messages' = <<>>
    /\ pc' = "setup"
    /\ UNCHANGED <<PASSWORD, password, button, uploaded_files, dirs, listing, todo,
                   filename, texto_completo, cifs_encontrados, destination_folder, archive>>

----------------------------------------------------------------------------
(* procesar_y_clasificar (lines 71-124).                                   *)

\* Lines 76-77, then the os.listdir of line 80.
Setup ==
    /\ pc = "setup"
    /\ dirs' = dirs \cup {<<c>> : c \in Range(CIFS_LIST \o <<UNIDENTIFIED_FOLDER_NAME>>)}
    /\ listing' = os_listdir(base_dir, dirs', files)
    /\ todo' = listing'
    /\ pc' = "normalize"
    /\ UNCHANGED <<PASSWORD, password, button, uploaded_files, files, filename,
                   texto_completo, cifs_encontrados, destination_folder, log_messages,
                   archive>>

\* Lines 81-83: the iteration for this entry renames it
NeedsRename(name, fs) == isfile(base_dir, name, fs) /\ name # strip(name)

\* Lines 80-85, one iteration that renames.  os.listdir gives the entries in
\* any order; an iteration for a directory or for a clean name changes nothing,
\* so only the order of the renaming iterations is a choice.
NormalizeFile(name) ==
    /\ pc = "normalize"
    /\ name \in todo
    /\ NeedsRename(name, files)
    /\ filename' = name
    /\ files' = os_rename(name, strip(name), files)
    /\ log_messages' = Append(log_messages, LogRenombrado(name, strip(name)))
    /\ todo' = todo \ {name}
    /\ UNCHANGED <<PASSWORD, password, button, uploaded_files, pc, dirs, listing,
                   texto_completo, cifs_encontrados, destination_folder, archive>>

\* The loop of line 80 ends; line 88 lists base_dir again.
EndNormalize ==
    /\ pc = "normalize"
    /\ \A name \in todo : ~NeedsRename(name, files)
    /\ listing' = os_listdir(base_dir, dirs, files)
    /\ todo' = listing'
    /\ pc' = "classify"
    /\ UNCHANGED <<PASSWORD, password, button, uploaded_files, dirs, files, filename,
                   texto_completo, cifs_encontrados, destination_folder, log_messages,
                   archive>>

\* Lines 57-65 for the file base_dir/name: <<TRUE, text>>, or <<FALSE, "">>
\* when pdfplumber raises (no such file, or bytes it cannot parse).
LeerPdf(name, fs) ==
    IF \E f \in fs : f.dir = base_dir /\ f.name = name /\ PdfDocs[f.data.doc].readable
    THEN LET f == CHOOSE g \in fs : g.dir = base_dir /\ g.name = name
         IN  <<TRUE, ExtractText(PdfDocs[f.data.doc].pages)>>
    ELSE <<FALSE, NoStr>>

\* Variant of cifs_principales: the membership test of line 92 is dropped.
cifs_principales_sin_filtro(cifs) == cifs

\* Line 92
cifs_principales(cifs) == SelectSeq(cifs, LAMBDA cif : cif \in Range(CIFS_LIST))

\* Variant of otros_cifs: only recognized codes may be secondary.
otros_cifs_solo_lista(cifs, cif_principal) ==
    SelectSeq(cifs, LAMBDA cif : cif # cif_principal /\ cif \in Range(CIFS_LIST))

\* Line 100
otros_cifs(cifs, cif_principal) == SelectSeq(cifs, LAMBDA cif : cif # cif_principal)

\* Lines 94-107: destination_folder, as a path below base_dir
Destination(cifs) ==
    IF cifs_principales(cifs) = <<>>
    THEN <<UNIDENTIFIED_FOLDER_NAME>>
    ELSE LET cif_principal == cifs_principales(cifs)[1]
         IN  IF otros_cifs(cifs, cif_principal) # <<>>
             THEN <<cif_principal, otros_cifs(cifs, cif_principal)[1]>>
             ELSE <<cif_principal>>

\* Lines 97, 104, 107: the line logged with the decision
LogClasificacion(name, cifs) ==
    IF cifs_principales(cifs) = <<>>
    THEN LogSinCif(name)
    ELSE LET cif_principal == cifs_principales(cifs)[1]
         IN  IF otros_cifs(cifs, cif_principal) # <<>>
             THEN LogMultiples(name, cif_principal, otros_cifs(cifs, cif_principal)[1])
             ELSE LogUnico(name, cif_principal)

\* Variant of FilesToMove: only the PDF itself is moved.
FilesToMove_solo_pdf(name, ds, fs) ==
    {file_to_move \in os_listdir(base_dir, ds, fs) :
        file_to_move = name /\ isfile(base_dir, file_to_move, fs)}

\* Lines 111-117: the entries of base_dir the move loop moves for the PDF
FilesToMove(name, ds, fs) ==
    {file_to_move \in os_listdir(base_dir, ds, fs) :
        /\ splitext(file_to_move)[1] = splitext(name)[1]
        /\ isfile(base_dir, file_to_move, fs)}

\* Lines 114-118
RECURSIVE MoveAll(_, _, _)
MoveAll(names, dest, fs) ==
    IF names = {} THEN fs
    ELSE LET n == CHOOSE x \in names : TRUE
         IN  MoveAll(names \ {n}, dest, shutil_move(n, dest, fs))

\* Lines 88-118, one iteration for an entry named as a PDF.  The iterations for
\* the other entries change nothing.
ClassifyPdf(name) ==
    /\ pc = "classify"
    /\ name \in todo
    /\ IsPdfName(name)
    /\ filename' = name
    /\ texto_completo' = LeerPdf(name, files)[2]
    /\ cifs_encontrados' \in
           (IF LeerPdf(name, files)[1] THEN buscar_cif_en_pdf(texto_completo') ELSE {<<>>})
    /\ destination_folder' = <<Destination(cifs_encontrados')>>
    /\ log_messages' = Append(log_messages, LogClasificacion(name, cifs_encontrados'))
    /\ dirs' = makedirs(destination_folder'[1], dirs)
    /\ files' = MoveAll(FilesToMove(name, dirs', files), destination_folder'[1], files)
    /\ todo' = todo \ {name}
    /\ UNCHANGED <<PASSWORD, password, button, uploaded_files, pc, listing, archive>>

\* Lines 121-124: os.walk(base_dir, topdown=False) scans a directory, walks its
\* sub-directories and then visits the directory itself, which is removed when
\* it is not base_dir and os.listdir finds it empty at that moment.  st is
\* [dirs, log]; the files do not change.
RECURSIVE Walk(_, _, _), WalkAll(_, _, _)
\* Variant of Walk: emptiness is judged by the files of the directory alone, as
\* with the third component of os.walk's tuples.
Walk_solo_ficheros(top, st, fs) ==
    LET after == WalkAll({d \in st.dirs : IsChild(d, top)}, st, fs)
    IN  IF top # base_dir /\ {f \in fs : f.dir = top} = {}
        THEN [dirs |-> after.dirs \ {top},
              log  |-> Append(after.log, LogEliminada(top[Len(top)]))]
        ELSE after
Walk(top, st, fs) ==
    LET after == WalkAll({d \in st.dirs : IsChild(d, top)}, st, fs)
    IN  IF top # base_dir /\ os_listdir(top, after.dirs, fs) = {}
        THEN [dirs |-> after.dirs \ {top},
              log  |-> Append(after.log, LogEliminada(top[Len(top)]))]
        ELSE after
WalkAll(subdirs, st, fs) ==
    IF subdirs = {} THEN st
    ELSE LET d == CHOOSE x \in subdirs : TRUE
         IN  WalkAll(subdirs \ {d}, Walk(d, st, fs), fs)

\* Lines 120-124, after the loop of line 88 has ended.
Prune ==
    /\ pc = "classify"
    /\ \A name \in todo : ~IsPdfName(name)
    /\ LET st == Walk(base_dir, [dirs |-> dirs, log |-> log_messages], files)
       IN  /\ dirs' = st.dirs
           /\ log_messages' = st.log
    /\ pc' = "pruned"
    /\ UNCHANGED <<PASSWORD, password, button, uploaded_files, files, listing, todo,
                   filename, texto_completo, cifs_encontrados, destination_folder,
                   archive>>

----------------------------------------------------------------------------
(* The archive and the end of the run (lines 149-172).                     *)

\* Lines 150-156: the ZIP file is created in temp_dir, then every file of the
\* tree not named like it is written under its path relative to temp_dir.
Archive ==
    /\ pc = "pruned"
    /\ archive' = {[arcname |-> Append(f.dir, f.name), data |-> f.data] :
                      f \in {g \in files : g.name # ZIP_NAME}}
    /\ files' = {f \in files : ~(f.dir = base_dir /\ f.name = ZIP_NAME)}
                    \cup {[dir |-> base_dir, name |-> ZIP_NAME,
                           data |-> [id |-> ZIP_NAME, doc |-> "bad"]]}
    /\ pc' = "archived"
    /\ UNCHANGED <<PASSWORD, password, button, uploaded_files, dirs, listing, todo,
                   filename, texto_completo, cifs_encontrados, destination_folder,
                   log_messages>>

\* Line 136: leaving the with block deletes the temporary directory; the log
\* and the download stay on the page.
Finish ==
    /\ pc = "archived"
    /\ dirs' = {}
    /\ files' = {}
    /\ pc' = "done"
    /\ UNCHANGED <<PASSWORD, password, button, uploaded_files, listing, todo, filename,
                   texto_completo, cifs_encontrados, destination_folder, log_messages,
                   archive>>

Next ==
    \/ Gate
    \/ \E p \in Typed : TypePassword(p)
    \/ UploadFiles
    \/ ClearFiles
    \/ PressButton
    \/ SaveUploads
    \/ Setup
    \/ \E name \in FileNames : NormalizeFile(name)
    \/ EndNormalize
    \/ \E name \in listing : ClassifyPdf(name)
    \/ Prune
    \/ Archive
    \/ Finish

Spec == Init /\ [][Next]_vars

----------------------------------------------------------------------------
(* The matcher on its own: buscar_cif_en_pdf applied to texts that embed a *)
(* code, with separators inside it and other text around it.               *)

EmbeddedCodes == {
    <<"B","8","5","5","3","6","1","3","4">>,
    <<"a","8","0","6","5","2","9","2","8">>,
    <<"g","8","3","8","4","4","3","1","6">> }

Separators == { <<" ">>, <<"-">>, <<".", "\n">>, <<"_", "\t">> }

Prefixes == {
    <<>>,
    <<"A","8","0","6","5","2","9","2">>,
    <<"Z","9">>,
    <<"B","8","5","5","3","6","1","3","4","-">>,
    <<"R","e","f",":"," ">> }

Suffixes == {
    <<>>,
    <<"9">>,
    <<" ","b","8","5","5","3","6","1","3","4">>,
    <<"Z">> }

\* The code with sep after each of its characters whose index is in gaps
RECURSIVE Spaced(_, _, _, _)
Spaced(code, gaps, sep, i) ==
    IF i > Len(code) THEN <<>>
    ELSE <<code[i]>> \o (IF i \in gaps THEN sep ELSE <<>>) \o Spaced(code, gaps, sep, i + 1)

MatcherTexts ==
    {pre \o Spaced(code, gaps, sep, 1) \o suf :
        pre \in Prefixes, code \in EmbeddedCodes, sep \in Separators, suf \in Suffixes,
        gaps \in {G \in SUBSET (1..PatronDigits) : Cardinality(G) <= MaxSeps}}

InitMatcher ==
    /\ PASSWORD = <<>>
    /\ password = ""
    /\ button = FALSE
    /\ uploaded_files = {}
    /\ pc = "matcher"
    /\ dirs = {}
    /\ files = {}
    /\ listing = {}
    /\ todo = {}
    /\ filename = NoStr
    /\ texto_completo \in MatcherTexts
    /\ cifs_encontrados = <<>>
    /\ destination_folder = <<>>
    /\ log_messages = <<>>
    /\ archive = {}

\* Lines 67-69 on the text read
BuscarCif ==
    /\ pc = "matcher"
    /\ cifs_encontrados' \in buscar_cif_en_pdf(texto_completo)
    /\ pc' = "matched"
    /\ UNCHANGED <<PASSWORD, password, button, uploaded_files, dirs, files, listing, todo,
                   filename, texto_completo, destination_folder, log_messages, archive>>

NextMatcher == BuscarCif

SpecMatcher == InitMatcher /\ [][NextMatcher]_vars

----------------------------------------------------------------------------
(* Properties.                                                             *)

Done == pc = "pruned"

\* The entries of the listing of line 88 that are regular files: the folders
\* of line 76 are directories.
FileEntries == listing \ Range(CIFS_LIST \o <<UNIDENTIFIED_FOLDER_NAME>>)

PdfEntries == {p \in FileEntries : IsPdfName(p)}

\* The directories that hold a file of this name
Where(name) == {f.dir : f \in {g \in files : g.name = name}}

Recognized(cifs) == {c \in Range(cifs) : \E i \in 1..Len(CIFS_LIST) : CIFS_LIST[i] = c}

\* sub occurs in s
Contains(s, sub) ==
    \E i \in 1..(Len(s) + 1 - Len(sub)) : SubSeq(s, i, i + Len(sub) - 1) = sub

Text(data) == ExtractText(PdfDocs[data.doc].pages)

A80652928 == <<"A","8","0","6","5","2","9","2","8">>
Z99999999 == <<"Z","9","9","9","9","9","9","9","9">>
multi_pdf == <<"m","u","l","t","i",".","p","d","f">>

\* C1: at Done, every non-PDF file that was directly in the working directory
\* with the base name of a PDF is in the same folder as that PDF, and that
\* folder is not the root.
C1_SidecarsWithAnchor ==
    Done =>
        \A p \in PdfEntries : \A s \in FileEntries \ PdfEntries :
            splitext(s)[1] = splitext(p)[1] =>
                \E d \in dirs : d # base_dir /\ Where(p) = {d} /\ Where(s) = {d}

\* C1's case: a PDF and a sidecar of its base name have been moved.
C1_Witness ==
    /\ Done
    /\ \E p \in PdfEntries : \E s \in FileEntries \ PdfEntries :
           splitext(s)[1] = splitext(p)[1] /\ Where(s) # {base_dir}

\* C2: the destination chosen for a PDF is the unidentified folder exactly
\* when none of the codes extracted from it is in CIFS_LIST, however many codes
\* were extracted; the extracted codes are the matches of the text read.
C2_UnidentifiedIffNoneRecognized ==
    (pc = "classify" /\ destination_folder # <<>>) =>
        /\ Range(cifs_encontrados) = MatchSet(texto_completo)
        /\ (Recognized(cifs_encontrados) = {}
               <=> destination_folder[1] = <<UNIDENTIFIED_FOLDER_NAME>>)

\* C2's case: two codes were extracted, none recognized, and the unidentified
\* folder was chosen.
C2_Witness ==
    /\ pc = "classify"
    /\ Len(cifs_encontrados) = 2
    /\ destination_folder = << <<UNIDENTIFIED_FOLDER_NAME>> >>

\* C3: when a recognized code was extracted, the top-level folder is a
\* recognized extracted code; with no other code the destination is that
\* folder, with exactly one other code it is <recognized>/<other>, the other
\* being a different extracted code.
C3_PrimaryAndSecondary ==
    (pc = "classify" /\ destination_folder # <<>> /\ Recognized(cifs_encontrados) # {}) =>
        LET d == destination_folder[1]
            E == Range(cifs_encontrados)
        IN  /\ d[1] \in Recognized(cifs_encontrados)
            /\ d \in dirs
            /\ Cardinality(E) = 1 => Len(d) = 1
            /\ Cardinality(E) = 2 => Len(d) = 2 /\ d[2] \in E \ {d[1]}

\* C3's case: one recognized code and one unrecognized code were extracted.
C3_Witness ==
    /\ pc = "classify"
    /\ destination_folder # <<>>
    /\ Len(destination_folder[1]) = 2
    /\ Recognized(cifs_encontrados) # Range(cifs_encontrados)

\* multi.pdf was uploaded with a text that contains both codes
MultiUploaded ==
    \E u \in uploaded_files :
        /\ u.name = multi_pdf
        /\ Contains(Text(u.data), A80652928)
        /\ Contains(Text(u.data), Z99999999)

\* C4 as stated: multi.pdf, whose text contains A80652928 and Z99999999, ends
\* up at A80652928/Z99999999/multi.pdf.
C4_AsStated ==
    (Done /\ MultiUploaded) => Where(multi_pdf) = {<<A80652928, Z99999999>>}

\* C4 as amended: Z99999999 does not match the pattern, is not extracted, and
\* multi.pdf ends up at A80652928/multi.pdf; no sub-folder Z99999999 exists.
C4_Amended ==
    (Done /\ MultiUploaded) =>
        /\ Where(multi_pdf) = {<<A80652928>>}
        /\ <<A80652928, Z99999999>> \notin dirs

\* C4's case: the run on multi.pdf has ended.
C4_Witness == Done /\ MultiUploaded /\ Where(multi_pdf) # {}

\* The code that starts at position i of the text when separators are skipped
\* between its characters: <<>> when there is none.
RECURSIVE ReadDigits(_, _, _)
ReadDigits(t, j, need) ==
    IF need = 0 THEN <<>>
    ELSE IF j > Len(t) THEN <<"?">>
    ELSE IF t[j] \in {" ", "\t", "\n", ".", "_", "-"} THEN ReadDigits(t, j + 1, need)
    ELSE IF t[j] \in Digits THEN <<t[j]>> \o ReadDigits(t, j + 1, need - 1)
    ELSE <<"?">>

SpacedCodeAt(t, i) ==
    IF t[i] \in {"A", "B", "G", "a", "b", "g"} /\ "?" \notin Range(ReadDigits(t, i + 1, 8))
    THEN <<t[i]>> \o ReadDigits(t, i + 1, 8)
    ELSE <<>>

\* C5: every code in canonical format that the text contains, with
\* whitespace, '.', '_' or '-' between its characters, is in the list
\* returned by buscar_cif_en_pdf in uppercase, exactly once.
C5_EmbeddedCodeReturnedOnce ==
    pc = "matched" =>
        \A i \in 1..Len(texto_completo) :
            SpacedCodeAt(texto_completo, i) # <<>> =>
                Cardinality({k \in 1..Len(cifs_encontrados) :
                    cifs_encontrados[k] = upper(SpacedCodeAt(texto_completo, i))}) = 1

\* C5's case: a lowercase code with separators inside, which occurs twice in
\* the text, has been matched.
C5_Witness ==
    /\ pc = "matched"
    /\ \E i, j \in 1..Len(texto_completo) :
           /\ i < j
           /\ SpacedCodeAt(texto_completo, j) # <<>>
           /\ upper(SpacedCodeAt(texto_completo, i)) = upper(SpacedCodeAt(texto_completo, j))
           /\ SpacedCodeAt(texto_completo, i) # SpacedCodeAt(texto_completo, j)
           /\ texto_completo[i + 1] \notin Digits

\* C6 as stated: at Done every PDF that pdfplumber cannot read is in the
\* unidentified folder, and every PDF has been moved out of the root.
C6_AsStated ==
    Done =>
        \A f \in files : IsPdfName(f.name) =>
            /\ f.dir # base_dir
            /\ ~PdfDocs[f.data.doc].readable => f.dir = <<UNIDENTIFIED_FOLDER_NAME>>

\* C7 as stated: from the Normalize phase on, the content of every uploaded
\* file is still in the working directory tree.
C7_AsStated ==
    pc \in {"normalize", "classify", "pruned"} =>
        \A u \in uploaded_files : \E f \in files : f.data = u.data

\* C8 as stated: at Done every entry directly under the root is a non-empty
\* directory, no directory is empty, and every directory that holds a file
\* exists.
C8_AsStated ==
    Done =>
        /\ \A f \in files : f.dir # base_dir
        /\ \A d \in dirs : os_listdir(d, dirs, files) # {}
        /\ \A f \in files : \A k \in 1..Len(f.dir) : SubSeq(f.dir, 1, k) \in dirs

\* C8 as amended: at Done no directory is empty, every directory that holds a
\* file exists, and an entry directly under the root is a non-empty directory
\* or a file that is not a PDF and shares its base name with no PDF of the
\* listing of line 88.
C8_Amended ==
    Done =>
        /\ \A f \in files :
               f.dir = base_dir =>
                   /\ ~IsPdfName(f.name)
                   /\ f.name \in FileEntries
                   /\ \A p \in PdfEntries : splitext(p)[1] # splitext(f.name)[1]
        /\ \A d \in dirs : os_listdir(d, dirs, files) # {}
        /\ \A f \in files : \A k \in 1..Len(f.dir) : SubSeq(f.dir, 1, k) \in dirs

\* C8's case: at Done a file without PDF is left in the root beside a
\* populated <primary>/<secondary> folder, and pre-created folders are gone.
C8_Witness ==
    /\ Done
    /\ \E f \in files : f.dir = base_dir
    /\ \E f \in files : Len(f.dir) = 2
    /\ <<UNIDENTIFIED_FOLDER_NAME>> \notin dirs

\* C9: the temporary directory is written, procesar_y_clasificar runs and the
\* archive is built only in a script run whose password equals a configured
\* secret.
C9_GateBlocksCore ==
    (\/ pc \in {"run", "setup", "normalize", "classify", "pruned", "archived"}
     \/ files # {} \/ dirs # {} \/ archive # {} \/ log_messages # <<>>) =>
        PASSWORD # <<>> /\ PASSWORD = <<password>>

\* C9's case: a run has built the archive.
C9_Witness == pc = "archived" /\ archive # {}

\* The folder a classification line of the log names
LogDestination(e) ==
    IF e.kind = "sin_cif" THEN <<UNIDENTIFIED_FOLDER_NAME>>
    ELSE IF e.kind = "unico" THEN <<e.a>>
    ELSE <<e.a, e.b>>

ClassificationLines(name) ==
    {k \in 1..Len(log_messages) :
        /\ log_messages[k].kind \in {"sin_cif", "unico", "multiples"}
        /\ log_messages[k].filename = name}

\* C10 as stated: at Done the log holds exactly one classification line for
\* each PDF of the listing of line 88, and the folder it names is the folder
\* the PDF is in.
C10_AsStated ==
    Done =>
        \A p \in PdfEntries :
            /\ Cardinality(ClassificationLines(p)) = 1
            /\ \A k \in ClassificationLines(p) : Where(p) = {LogDestination(log_messages[k])}

====
